---- MODULE Spec2Model ----
(***************************************************************************)
(* Clyde's bulletproof sync engine (src/src/bulletproof_sync.py) together  *)
(* with the parts of SyncManager (src/src/sync.py), ConfigBuilder and      *)
(* ConfigValidator (src/src/builder.py) and ClydeConfig                    *)
(* (src/src/config.py) that it drives.                                     *)
(*                                                                         *)
(* The project directory is a function from file names to contents.  A     *)
(* content is a record [kind, parts, ts, hash]: the template that produced *)
(* the text, the pieces joined into it, the timestamp and the config hash  *)
(* embedded in it.  Two texts are equal exactly when the records are.      *)
(***************************************************************************)
EXTENDS Integers, Sequences, FiniteSets, TLC

VARIABLES
    cfg,          \* the ClydeConfig held by the manager
    lib,          \* module id -> whether its backing file exists
    fs,           \* project file -> content
    snaps,        \* snapshot id -> snapshot directory under .bulletproof/snapshots
    audit,        \* lines of .bulletproof/audit.log
    logWritable,  \* whether audit.log can be opened for append
    now,          \* wall clock: [sec, tick]
    proc,         \* per invocation: the locals of bulletproof_sync
    hist,         \* per invocation: history (state at the call, phases, files written)
    out           \* what the last snapshot-management or audit call returned

vars == <<cfg, lib, fs, snaps, audit, logWritable, now, proc, hist, out>>

----------------------------------------------------------------------------
(* Bounds *)

\* the clock advances at most this many operation-id slots
MaxTick == 1

\* the snapshot store managed from the CLI holds at most this many snapshots
MaxSnaps == 3

\* the stored snapshots were captured at times 0..MaxStamp
MaxStamp == 2

----------------------------------------------------------------------------
(* Program constants *)

\* len(content.strip()) < 100: "unusually small" generated file
SmallThreshold == 100

\* available_mb < 10 is an error, < 50 a warning
DiskErrorMb == 10
DiskWarnMb == 50

----------------------------------------------------------------------------
(* Sequences *)

Range(s) == {s[i] : i \in 1..Len(s)}

RECURSIVE Sum(_, _)
Sum(f, s) == IF s = <<>> THEN 0 ELSE f[Head(s)] + Sum(f, Tail(s))

Prefix(s, k) == SubSeq(s, 1, k)

----------------------------------------------------------------------------
(* Modules, targets, files *)

ModuleIds == {"core.tdd", "core.dry", "custom.note"}

\* The text of each library module: its length, the length of the title on
\* its first line (0: the first line is no heading), whether the text holds
\* the substring "Generated by clyde".
ModuleText ==
    [m \in ModuleIds |->
        CASE m = "core.tdd"    -> [len |-> 400, title |-> 3, marker |-> FALSE]
          [] m = "core.dry"    -> [len |-> 300, title |-> 3, marker |-> FALSE]
          [] m = "custom.note" -> [len |-> 40,  title |-> 0, marker |-> TRUE]]

None == "None"

\* .clyde/generated-{target}.md
GeneratedFile(t) ==
    CASE t = "claude" -> "generated-claude.md"
      [] t = "gemini" -> "generated-gemini.md"
      [] OTHER        -> "generated-other.md"

ConfigFile == "config.yaml"
MetadataFile == ".sync_metadata"
BootloaderFile == "claude.md"
SharedFile == "shared/core-principles.md"

Files == {ConfigFile, MetadataFile, BootloaderFile, SharedFile,
          GeneratedFile("claude"), GeneratedFile("gemini")}

\* file_groups["core-principles.md"], restricted to the modelled modules
SharedGroup == <<"core.dry">>

----------------------------------------------------------------------------
(* Contents *)

Content(k, p, t, h) == [kind |-> k, parts |-> p, ts |-> t, hash |-> h]

Absent == Content("absent", <<>>, 0, <<>>)

Exists(c) == c.kind # "absent"

\* a generated file somebody edited by hand, dropping the marker block
HandEdited == Content("hand", <<>>, 0, <<>>)

UserFile == Content("user", <<>>, 0, <<>>)

ValidYaml == Content("yaml", <<>>, 0, <<>>)

EmptyYaml == Content("emptyyaml", <<>>, 0, <<>>)

\* the templates that open with <!-- Generated by clyde v1.0.0 ... -->
MarkedKinds == {"empty", "includes", "shared", "sharedfile"}

\* "Generated by clyde" in content
HasMarker(c) ==
    \/ c.kind \in MarkedKinds
    \/ /\ c.kind = "mono"
       /\ \E i \in 1..Len(c.parts) :
              c.parts[i] \in ModuleIds /\ ModuleText[c.parts[i]].marker

\* len("# Development Standards - " + project_name), project_name = "app"
HeaderLen == 29

\* "## Table of Contents\n" + "\n".join("- [title](#anchor)")
TocLen(mods) ==
    LET heads == SelectSeq(mods, LAMBDA m : ModuleText[m].title > 0)
        item == [m \in ModuleIds |-> 2 * ModuleText[m].title + 7]
    IN IF heads = <<>> THEN 0 ELSE 21 + Sum(item, heads) + (Len(heads) - 1)

\* len(content.strip()) of a monolithic file: the parts joined by "\n\n",
\* the joiner before the empty footer stripped
MonoLen(c) ==
    LET mods == SelectSeq(c.parts, LAMBDA x : x \in ModuleIds)
        plen == [x \in Range(c.parts) |->
                    CASE x = "HDR" -> HeaderLen
                      [] x = "TOC" -> TocLen(mods)
                      [] x = "FTR" -> 0
                      [] OTHER     -> ModuleText[x].len]
    IN Sum(plen, c.parts) + 2 * (Len(c.parts) - 1) - 2

\* every template text and every hand-written file is longer than the threshold
StrippedLen(c) == IF c.kind = "mono" THEN MonoLen(c) ELSE SmallThreshold + 1

----------------------------------------------------------------------------
(* ClydeConfig *)

\* ClydeConfig.to_dict: what the YAML dump holds (neither the targets nor the
\* database tag are in it)
to_dict(c) ==
    [version  |-> c.version,
     project  |-> [name |-> c.project_name, type |-> c.project_type,
                   language |-> c.language, framework |-> c.framework],
     includes |-> c.includes,
     custom_modules |-> c.custom_modules,
     options  |-> c.options]

\* md5(yaml.dump(to_dict(), sort_keys=True))[:8], taken as injective
get_config_hash(c) == to_dict(c)

\* ClydeConfig.get_module_path(module_id).exists()
ModuleExists(l, m) == m \in ModuleIds /\ l[m]

IsGroup(item) == item = "core.*"

\* modules/core/*.md, in the order glob yields them
GroupMembers(l) == SelectSeq(<<"core.dry", "core.tdd">>, LAMBDA m : l[m])

RECURSIVE expand_groups(_, _)
expand_groups(l, includes) ==
    IF includes = <<>> THEN <<>>
    ELSE (IF IsGroup(Head(includes)) THEN GroupMembers(l) ELSE <<Head(includes)>>)
         \o expand_groups(l, Tail(includes))

\* the shared includes merged with the target's own references; the
\* configurations drawn here give no target any reference of its own
get_all_modules_for_target(c, t) == c.includes

\* ModuleResolver: the ids, among the target's expanded modules, whose file
\* resolves to content
get_all_module_content_for_target(c, l, t) ==
    {m \in Range(expand_groups(l, get_all_modules_for_target(c, t))) : ModuleExists(l, m)}

\* ClydeConfig.validate_modules: the expanded includes that are missing
validate_modules(c, l) ==
    SelectSeq(expand_groups(l, c.includes), LAMBDA m : ~ModuleExists(l, m))

ValidationLevels == {"strict", "normal", "permissive"}

Msg(m, r) == [message |-> m, ref |-> r]

\* ConfigValidator.validate: the list of issue strings
validate(c, l) ==
    LET missing == validate_modules(c, l)
    IN (IF c.project_name = "" THEN <<Msg("Project name is required", "")>> ELSE <<>>)
       \o (IF c.language = "" THEN <<Msg("Language is required", "")>> ELSE <<>>)
       \o [i \in 1..Len(missing) |-> Msg("Module not found", missing[i])]
       \o (IF c.options.validation_level \notin ValidationLevels
           THEN <<Msg("Invalid validation level", c.options.validation_level)>>
           ELSE <<>>)

----------------------------------------------------------------------------
(* ConfigBuilder *)

\* _get_generated_header_for_target: "# Development Standards - {project_name}"
get_generated_header_for_target(t) == <<"HDR">>

\* _build_monolithic_file_for_target: header, table of contents when enabled,
\* the modules in declared order, footer
build_monolithic_file_for_target(c, l, t) ==
    LET mc == get_all_module_content_for_target(c, l, t)
        expanded == expand_groups(l, get_all_modules_for_target(c, t))
    IN Content("mono",
               get_generated_header_for_target(t)
                 \o (IF c.options.include_toc THEN <<"TOC">> ELSE <<>>)
                 \o SelectSeq(expanded, LAMBDA m : m \in mc)
                 \o <<"FTR">>,
               0, <<>>)

\* build_generated_file_for_target: the text returned, rendered in second sec
build_generated_file_for_target(c, l, t, sec) ==
    LET mc == get_all_module_content_for_target(c, l, t)
    IN IF mc = {} THEN Content("empty", <<t>>, sec, <<>>)
       ELSE IF c.options.split_strategy = "includes"
            THEN Content("includes", <<t>>, sec, <<get_config_hash(c)>>)
       ELSE IF c.options.split_strategy = "shared"
            THEN Content("shared", <<t>>, sec, <<get_config_hash(c)>>)
       ELSE build_monolithic_file_for_target(c, l, t)

Write(f, c) == [file |-> f, content |-> c]

\* _create_shared_files: the files build_generated_file_for_target writes on
\* the way under the split strategies
create_shared_files(c, l, t, sec) ==
    LET mc == get_all_module_content_for_target(c, l, t)
    IN IF mc # {} /\ c.options.split_strategy \in {"includes", "shared"}
       THEN <<Write(SharedFile,
                    Content("sharedfile", SelectSeq(SharedGroup, LAMBDA m : m \in mc),
                            sec, <<get_config_hash(c)>>))>>
       ELSE <<>>

----------------------------------------------------------------------------
(* SyncManager *)

Read(f, name) == IF name \in DOMAIN f THEN f[name] ELSE Absent

CurrentVersion == "1.0.0"

\* _load_sync_metadata: {} when the record is absent
load_sync_metadata(f) == Read(f, MetadataFile)

\* _update_sync_metadata: last_sync, config_hash, clyde_version, module_count
update_sync_metadata(c, t) ==
    Write(MetadataFile, Content("meta", <<CurrentVersion>>, t.tick, <<get_config_hash(c)>>))

targets_of(c, target) == IF target # None THEN <<target>> ELSE c.targets

Change(op, ref) == [op |-> op, ref |-> ref]

\* preview_changes: "Update"/"Create" per target whose file would change,
\* then "Fix N configuration issues"
preview_changes(c, l, f, target, sec) ==
    LET differs(t) == Read(f, GeneratedFile(t)) # build_generated_file_for_target(c, l, t, sec)
        changed == SelectSeq(targets_of(c, target), differs)
        issues == validate(c, l)
    IN [i \in 1..Len(changed) |->
            Change(IF Exists(Read(f, GeneratedFile(changed[i]))) THEN "Update" ELSE "Create",
                   GeneratedFile(changed[i]))]
       \o (IF issues # <<>> THEN <<Change("Fix", "configuration issues")>> ELSE <<>>)

\* the files written while building (and, with gen, writing) each target
RECURSIVE target_writes(_, _, _, _, _)
target_writes(c, l, ts, sec, gen) ==
    IF ts = <<>> THEN <<>>
    ELSE create_shared_files(c, l, Head(ts), sec)
         \o (IF gen
             THEN <<Write(GeneratedFile(Head(ts)),
                          build_generated_file_for_target(c, l, Head(ts), sec))>>
             ELSE <<>>)
         \o target_writes(c, l, Tail(ts), sec, gen)

\* SyncManager.sync raises before writing anything: the configuration is
\* rejected under strict validation, or the target is not configured
sync_raises(c, l, target) ==
    IF validate(c, l) # <<>> /\ c.options.validation_level = "strict"
    THEN "Configuration validation failed"
    ELSE IF target # None /\ target \notin Range(c.targets)
    THEN "Target not configured"
    ELSE ""

\* a sync that writes the metadata record before the artifacts
sync_metadata_first(c, l, target, t) ==
    IF sync_raises(c, l, target) # "" THEN <<>>
    ELSE <<update_sync_metadata(c, t)>>
         \o target_writes(c, l, targets_of(c, target), t.sec, TRUE)

\* SyncManager.sync: each requested target's artifact, then the metadata record
sync(c, l, target, t) ==
    IF sync_raises(c, l, target) # "" THEN <<>>
    ELSE target_writes(c, l, targets_of(c, target), t.sec, TRUE)
         \o <<update_sync_metadata(c, t)>>

\* the project after the first k writes of plan
RECURSIVE apply_writes(_, _, _)
apply_writes(f, plan, k) ==
    IF k = 0 THEN f
    ELSE LET g == apply_writes(f, plan, k - 1)
         IN [g EXCEPT ![plan[k].file] = plan[k].content]

----------------------------------------------------------------------------
(* BulletproofSyncManager: validation *)

Issue(sev, cat, msg, ref) ==
    [severity |-> sev, category |-> cat, message |-> msg, ref |-> ref]

HasError(issues) == \E i \in 1..Len(issues) : issues[i].severity = "error"

\* _detect_file_corruption: an existing generated file without the marker
detect_file_corruption(c, f) ==
    LET bad == SelectSeq(c.targets,
                         LAMBDA t : Exists(Read(f, GeneratedFile(t)))
                                    /\ ~HasMarker(Read(f, GeneratedFile(t))))
    IN [i \in 1..Len(bad) |->
            Issue("warning", "corruption",
                  "Generated file may have been manually modified", GeneratedFile(bad[i]))]

\* the project's .claude directory holds the custom modules
OldClaudeDirExists(l) == l["custom.note"]

\* _detect_migration_needs
detect_migration_needs(l, f) ==
    LET metadata == load_sync_metadata(f)
    IN (IF OldClaudeDirExists(l)
        THEN <<Issue("warning", "migration", "Old .claude directory detected", ".claude")>>
        ELSE <<>>)
       \o (IF Exists(metadata) /\ metadata.parts # <<CurrentVersion>>
           THEN <<Issue("info", "migration",
                        "Project created with different Clyde version", MetadataFile)>>
           ELSE <<>>)

\* _validate_module_references
validate_module_references(c, l) ==
    LET bad == SelectSeq(c.includes,
                         LAMBDA m : IF IsGroup(m) THEN GroupMembers(l) = <<>>
                                    ELSE ~ModuleExists(l, m))
    IN [i \in 1..Len(bad) |->
            IF IsGroup(bad[i])
            THEN Issue("warning", "config", "No modules found matching pattern", bad[i])
            ELSE Issue("error", "config", "Referenced module does not exist", bad[i])]

\* _check_disk_space
check_disk_space(mb) ==
    IF mb < DiskErrorMb THEN <<Issue("error", "file", "Low disk space", "")>>
    ELSE IF mb < DiskWarnMb THEN <<Issue("warning", "file", "Low disk space", "")>>
    ELSE <<>>

\* _validate_pre_sync
validate_pre_sync(c, l, f, mb) ==
    (IF ~Exists(f[ConfigFile])
     THEN <<Issue("error", "config", "Configuration file does not exist", ConfigFile)>>
     ELSE IF f[ConfigFile] = EmptyYaml
     THEN <<Issue("error", "config", "Configuration file is empty or invalid", ConfigFile)>>
     ELSE <<>>)
    \o detect_file_corruption(c, f)
    \o detect_migration_needs(l, f)
    \o validate_module_references(c, l)
    \o check_disk_space(mb)

\* _verify_post_sync
verify_post_sync(c, f) ==
    LET per(t) ==
            LET g == f[GeneratedFile(t)]
            IN IF ~Exists(g)
               THEN <<Issue("error", "file", "Generated file missing after sync", t)>>
               ELSE (IF ~HasMarker(g)
                     THEN <<Issue("error", "corruption",
                                  "Generated file missing clyde marker", t)>>
                     ELSE <<>>)
                    \o (IF StrippedLen(g) < SmallThreshold
                        THEN <<Issue("warning", "file",
                                     "Generated file seems unusually small", t)>>
                        ELSE <<>>)
        metadata == load_sync_metadata(f)
        F[i \in 0..Len(c.targets)] ==
            IF i = 0 THEN <<>> ELSE F[i - 1] \o per(c.targets[i])
    IN F[Len(c.targets)]
       \o (IF ~Exists(metadata)
           THEN <<Issue("warning", "file", "Sync metadata was not updated properly", "")>>
           ELSE <<>>)

----------------------------------------------------------------------------
(* Snapshots, audit log, results *)

Procs == {"p1", "p2"}

\* _generate_operation_id: strftime("%Y%m%d_%H%M%S_%f")[:17], one id per clock slot
generate_operation_id(t) == t.tick

SnapIds == 0..MaxTick

NoId == -1

\* snapshot.json: status is "none" (no file), "ok" or "corrupt" (a torn write)
NoMeta ==
    [status |-> "none", timestamp |-> 0, config_hash |-> <<>>, operation |-> "",
     files |-> [f \in Files |-> Absent], operation_id |-> NoId]

CorruptMeta == [NoMeta EXCEPT !.status = "corrupt"]

NoSnap == [dir |-> FALSE, copies |-> [f \in Files |-> Absent], meta |-> NoMeta]

\* f"{operation}_{operation_id}" with operation = "pre_sync"
snapshot_id_of(operation_id) == operation_id

\* the order in which _create_snapshot collects the files
BackupOrder ==
    <<ConfigFile, GeneratedFile("claude"), GeneratedFile("gemini"), BootloaderFile>>

\* files_to_backup: config.yaml, the targets' generated files, the
\* bootloader and project files, each only if it exists
files_to_backup(c, f) ==
    SelectSeq(BackupOrder,
              LAMBDA x : Exists(f[x])
                         /\ (x \in {ConfigFile, BootloaderFile}
                             \/ \E i \in 1..Len(c.targets) : x = GeneratedFile(c.targets[i])))

\* _create_snapshot after k of its steps succeeded: mkdir (k >= 0), the
\* first k copies, then snapshot.json (k = n + 1); torn: the failed
\* write of snapshot.json left a truncated file
create_snapshot(old, c, f, t, operation_id, k, torn) ==
    LET list == files_to_backup(c, f)
        copied == Range(Prefix(list, IF k > Len(list) THEN Len(list) ELSE IF k < 0 THEN 0 ELSE k))
    IN IF k < 0 THEN old
       ELSE [dir    |-> TRUE,
             copies |-> [x \in Files |-> IF x \in copied THEN f[x] ELSE old.copies[x]],
             meta   |-> IF k = Len(list) + 1
                        THEN [status |-> "ok", timestamp |-> t.tick,
                              config_hash |-> <<get_config_hash(c)>>,
                              operation |-> "pre_sync",
                              files |-> [x \in Files |-> IF x \in copied THEN f[x] ELSE Absent],
                              operation_id |-> operation_id]
                        ELSE IF torn THEN CorruptMeta
                        ELSE old.meta]

Entry(event, operation_id, snapshot_id) ==
    [event |-> event, operation_id |-> operation_id, snapshot_id |-> snapshot_id]

\* _log_operation: append one line; a failure to write is swallowed
log_operation(log, writable, event, operation_id, snapshot_id) ==
    IF writable THEN Append(log, Entry(event, operation_id, snapshot_id)) ELSE log

SyncResult(success, operation, snapshot_id, issues, changes_made, rollback_available, message) ==
    [success |-> success, operation |-> operation, snapshot_id |-> snapshot_id,
     issues |-> issues, changes_made |-> changes_made,
     rollback_available |-> rollback_available, message |-> message]

NoResult == SyncResult(FALSE, "none", NoId, <<>>, <<>>, FALSE, <<>>)

\* an exception that leaves bulletproof_sync instead of a SyncResult
Raised == SyncResult(FALSE, "raised", NoId, <<>>, <<>>, FALSE, <<"exception">>)

\* a _log_operation that lets the failure of its write out
log_operation_raises_when_unwritable(writable) == ~writable

\* lines 663-665: _log_operation swallows every failure of its write
log_operation_raises(writable) == FALSE

\* the invocation's locals after a call of _log_operation: were the call to
\* raise, every handler on the way out logs again and raises again, and the
\* exception leaves bulletproof_sync
logged(writable, locals) ==
    IF log_operation_raises(writable)
    THEN [locals EXCEPT !.pc = "done", !.result = Raised]
    ELSE locals

\* the files _rollback_to_snapshot restores, in the mapping's order: those
\* listed in snapshot.json whose backup copy exists
restorable(s) ==
    SelectSeq(BackupOrder, LAMBDA x : Exists(s.meta.files[x]) /\ Exists(s.copies[x]))

\* a rollback that copies nothing back
restore_nothing(f, s, j) == f

\* the project after the first j files of the snapshot were copied back
restore(f, s, j) ==
    LET back == Range(Prefix(restorable(s), j))
    IN [x \in Files |-> IF x \in back THEN s.copies[x] ELSE f[x]]

\* a rollback that does not look for the snapshot directory or snapshot.json
rollback_result_ignoring_missing(s, snapshot_id, j) ==
    IF s.meta.status = "corrupt" \/ j < Len(restorable(s))
    THEN SyncResult(FALSE, "rollback", NoId, <<>>, <<>>, FALSE, <<"Rollback failed">>)
    ELSE SyncResult(TRUE, "rollback", NoId, <<>>, restorable(s), FALSE,
                    <<"Successfully rolled back to snapshot">>)

\* _rollback_to_snapshot's result when j of the m restorable files were
\* copied back before a copy raised (j = m: none raised)
rollback_result(s, snapshot_id, j) ==
    IF ~s.dir
    THEN SyncResult(FALSE, "rollback", NoId, <<>>, <<>>, FALSE, <<"Snapshot not found">>)
    ELSE IF s.meta.status = "none"
    THEN SyncResult(FALSE, "rollback", NoId, <<>>, <<>>, FALSE, <<"Snapshot metadata not found">>)
    ELSE IF s.meta.status = "corrupt" \/ j < Len(restorable(s))
    THEN SyncResult(FALSE, "rollback", NoId, <<>>, <<>>, FALSE, <<"Rollback failed">>)
    ELSE SyncResult(TRUE, "rollback", NoId, <<>>, restorable(s), FALSE,
                    <<"Successfully rolled back to snapshot">>)

\* the project _rollback_to_snapshot leaves behind
rollback_files(f, s, j) ==
    IF s.dir /\ s.meta.status = "ok" THEN restore(f, s, j) ELSE f

\* the audit line _rollback_to_snapshot writes, under an operation id of its own
rollback_log(log, writable, s, snapshot_id, j, t) ==
    IF ~s.dir \/ s.meta.status = "none" THEN log
    ELSE log_operation(log, writable,
                       IF rollback_result(s, snapshot_id, j).success
                       THEN "ROLLBACK_SUCCESS" ELSE "ROLLBACK_ERROR",
                       generate_operation_id(t), snapshot_id)

----------------------------------------------------------------------------
(* Initial states: the manager just constructed over an existing project *)

IncludeChoices == {<<"core.tdd", "core.dry">>, <<"custom.note">>}

SplitStrategies == {"monolithic", "includes", "shared"}

\* "permissive" is read nowhere: it takes every path "normal" takes
LevelChoices == {"strict", "normal"}

Configs ==
    {[project_name |-> "app", language |-> "python", framework |-> None,
      database |-> None, project_type |-> "application", includes |-> inc,
      custom_modules |-> <<>>,
      options |-> [validation_level |-> lv, split_strategy |-> sp, include_toc |-> TRUE],
      version |-> "1.0", targets |-> <<"claude", "gemini">>] :
        inc \in IncludeChoices, lv \in LevelChoices, sp \in SplitStrategies}

Libraries == {l \in [ModuleIds -> BOOLEAN] : l["core.tdd"]}

Project(conf, claude, gemini, meta, shared) ==
    [f \in Files |->
        CASE f = ConfigFile              -> conf
          [] f = GeneratedFile("claude") -> claude
          [] f = GeneratedFile("gemini") -> gemini
          [] f = MetadataFile            -> meta
          [] f = SharedFile              -> shared
          [] OTHER                       -> UserFile]

OldMeta(version) == Content("meta", <<version>>, 0, <<>>)

OldGenerated(t) == Content("empty", <<t>>, 0, <<>>)

Projects ==
    { Project(ValidYaml, Absent, Absent, Absent, Absent),
      Project(ValidYaml, OldGenerated("claude"), OldGenerated("gemini"),
              OldMeta(CurrentVersion), Absent),
      Project(ValidYaml, HandEdited, OldGenerated("gemini"), OldMeta("0.9.0"),
              Content("sharedfile", <<>>, 0, <<>>)),
      Project(Absent, Absent, Absent, Absent, Absent),
      Project(EmptyYaml, Absent, Absent, Absent, Absent) }

\* no snapshot-management or audit call has returned yet
NoOut == [op |-> "none"]

InitProc(pc) ==
    [pc |-> pc, target |-> None, force |-> FALSE, operation_id |-> NoId,
     snapshot_id |-> NoId, validation_result |-> <<>>, sync_result |-> NoResult,
     verification_issues |-> <<>>, result |-> NoResult]

InitHist(f) ==
    [pre |-> f, fault |-> FALSE, trace |-> <<>>, wrote |-> {}, rollback |-> NoResult]

TypeOK ==
    /\ cfg \in Configs
    /\ lib \in Libraries
    /\ DOMAIN fs = Files
    /\ DOMAIN snaps = SnapIds
    /\ logWritable \in BOOLEAN
    /\ now.tick \in 0..MaxTick /\ now.sec \in 0..now.tick
    /\ \A p \in Procs :
          proc[p].pc \in {"off", "idle", "validating", "snapshotting", "syncing",
                          "verifying", "rolling_back", "done"}

\* a module file may be missing only if the configuration refers to it
InitCommon ==
    /\ cfg \in Configs
    /\ lib \in Libraries
    /\ \A m \in ModuleIds \ Range(cfg.includes) : lib[m]
    /\ fs \in Projects
    /\ snaps = [s \in SnapIds |-> NoSnap]
    /\ audit = <<>>
    /\ now = [sec |-> 0, tick |-> 0]
    /\ hist = [p \in Procs |-> InitHist(fs)]
    /\ out = NoOut

\* one invocation of bulletproof_sync
Init ==
    /\ InitCommon
    /\ logWritable = TRUE
    /\ proc = [p \in Procs |-> InitProc(IF p = "p1" THEN "idle" ELSE "off")]

----------------------------------------------------------------------------
(* bulletproof_sync, phase by phase *)

TargetArgs == {None, "claude", "other"}

\* free space in MB as shutil.disk_usage reports it
DiskReadings == {5, 30, 500}

Step(p, phase) == [hist[p] EXCEPT !.trace = Append(@, phase)]

\* lines 119-120: the operation id, SYNC_START
Start(p) ==
    /\ proc[p].pc = "idle"
    /\ \E target \in TargetArgs, force \in BOOLEAN :
          proc' = [proc EXCEPT ![p] =
                      logged(logWritable,
                             [@ EXCEPT !.pc = "validating",
                                       !.target = target,
                                       !.force = force,
                                       !.operation_id = generate_operation_id(now)])]
    /\ audit' = log_operation(audit, logWritable, "SYNC_START",
                              generate_operation_id(now), NoId)
    /\ hist' = [hist EXCEPT ![p] = [InitHist(fs) EXCEPT !.trace = <<"start">>]]
    /\ UNCHANGED <<cfg, lib, fs, snaps, logWritable, now, out>>

\* a validation step that never aborts
next_after_validate_never_aborts(force, issues) == "snapshotting"

\* a validation step that aborts on an error whatever force says
next_after_validate_ignoring_force(force, issues) ==
    IF HasError(issues) THEN "done" ELSE "snapshotting"

\* line 125: with an error and no force the sync ends at validation
next_after_validate(force, issues) ==
    IF ~force /\ HasError(issues) THEN "done" ELSE "snapshotting"

\* lines 123-131: pre-sync validation; abort on an error unless forced
Validate(p) ==
    /\ proc[p].pc = "validating"
    /\ \E mb \in DiskReadings :
          LET issues == validate_pre_sync(cfg, lib, fs, mb)
              next == next_after_validate(proc[p].force, issues)
          IN proc' = [proc EXCEPT ![p] =
                IF next = "done"
                THEN [@ EXCEPT !.pc = next,
                               !.validation_result = issues,
                               !.result = SyncResult(FALSE, "validate", NoId, issues, <<>>, FALSE,
                                    <<"Pre-sync validation failed. Use --force to override.">>)]
                ELSE [@ EXCEPT !.pc = next, !.validation_result = issues]]
    /\ hist' = [hist EXCEPT ![p] = Step(p, "validate")]
    /\ UNCHANGED <<cfg, lib, fs, snaps, audit, logWritable, now, out>>

\* lines 186-192: an exception that escapes a phase (config.yaml cannot be
\* read during validation): SYNC_ERROR, a failed result
ValidateRaises(p) ==
    /\ proc[p].pc = "validating"
    /\ Exists(fs[ConfigFile])
    /\ proc' = [proc EXCEPT ![p] = logged(logWritable, [@ EXCEPT !.pc = "done",
                    !.result = SyncResult(FALSE, "sync", NoId, <<>>, <<>>, FALSE,
                                          <<"Unexpected error during sync">>)])]
    /\ audit' = log_operation(audit, logWritable, "SYNC_ERROR", proc[p].operation_id, NoId)
    /\ hist' = [hist EXCEPT ![p] = [Step(p, "validate") EXCEPT !.fault = TRUE]]
    /\ UNCHANGED <<cfg, lib, fs, snaps, logWritable, now, out>>

\* a capture that reports its id whether or not it failed
create_snapshot_returns_always(sid, k, n) == sid

\* a capture that reports its id as soon as every file was copied, before
\* snapshot.json is written
create_snapshot_returns_before_metadata(sid, k, n) == IF k >= n THEN sid ELSE NoId

\* _create_snapshot returns the snapshot id, or None when a step raised
create_snapshot_returns(sid, k, n) == IF k = n + 1 THEN sid ELSE NoId

\* lines 133-140 and _create_snapshot
Snapshot(p) ==
    /\ proc[p].pc = "snapshotting"
    /\ LET sid == snapshot_id_of(proc[p].operation_id)
           n == Len(files_to_backup(cfg, fs))
       IN \E k \in -1..(n + 1), torn \in BOOLEAN :
            /\ torn => k = n
            /\ snaps' = [snaps EXCEPT ![sid] =
                            create_snapshot(@, cfg, fs, now, proc[p].operation_id, k, torn)]
            /\ audit' = log_operation(audit, logWritable,
                                      IF k = n + 1 THEN "SNAPSHOT_CREATED" ELSE "SNAPSHOT_ERROR",
                                      proc[p].operation_id,
                                      IF k = n + 1 THEN sid ELSE NoId)
            /\ hist' = [hist EXCEPT ![p] = [Step(p, "snapshot") EXCEPT !.fault = k # n + 1]]
            /\ LET snapshot_id == create_snapshot_returns(sid, k, n)
               IN proc' = [proc EXCEPT ![p] = logged(logWritable,
                     IF snapshot_id # NoId
                     THEN [@ EXCEPT !.pc = "syncing", !.snapshot_id = snapshot_id]
                     ELSE [@ EXCEPT !.pc = "done",
                                    !.result = SyncResult(FALSE, "backup", NoId, <<>>, <<>>, FALSE,
                                                    <<"Failed to create backup snapshot">>)])]
    /\ UNCHANGED <<cfg, lib, fs, logWritable, now, out>>

\* lines 142-143 and _monitored_sync: preview_changes, then SyncManager.sync;
\* k of the writes succeed before one raises (k = all: none raises)
Sync(p) ==
    /\ proc[p].pc = "syncing"
    /\ LET target == proc[p].target
           plan == target_writes(cfg, lib, targets_of(cfg, target), now.sec, FALSE)
                   \o sync(cfg, lib, target, now)
           why == sync_raises(cfg, lib, target)
           changes == preview_changes(cfg, lib, fs, target, now.sec)
       IN \E k \in 0..Len(plan) :
            /\ fs' = apply_writes(fs, plan, k)
            /\ proc' = [proc EXCEPT ![p] =
                  IF k < Len(plan)
                  THEN [@ EXCEPT !.pc = "rolling_back",
                                 !.sync_result = SyncResult(FALSE, "sync", NoId, <<>>, <<>>, FALSE,
                                                            <<"write failed">>)]
                  ELSE IF why # ""
                  THEN [@ EXCEPT !.pc = "rolling_back",
                                 !.sync_result = SyncResult(FALSE, "sync", NoId, <<>>, <<>>, FALSE,
                                                            <<why>>)]
                  ELSE [@ EXCEPT !.pc = "verifying",
                                 !.sync_result = SyncResult(TRUE, "sync", NoId, <<>>, changes, FALSE,
                                                            <<"Sync completed successfully">>)]]
            /\ hist' = [hist EXCEPT ![p] =
                  [Step(p, "sync") EXCEPT !.wrote = {plan[i].file : i \in 1..k},
                                          !.fault = @ \/ k < Len(plan)]]
    /\ UNCHANGED <<cfg, lib, snaps, audit, logWritable, now, out>>

\* lines 155-184: post-sync verification, then success or rollback
Verify(p) ==
    /\ proc[p].pc = "verifying"
    /\ LET issues == verify_post_sync(cfg, fs)
       IN IF issues # <<>> /\ ~proc[p].force
          THEN /\ proc' = [proc EXCEPT ![p] = [@ EXCEPT !.pc = "rolling_back",
                                                        !.verification_issues = issues]]
               /\ audit' = audit
          ELSE /\ proc' = [proc EXCEPT ![p] = logged(logWritable, [@ EXCEPT !.pc = "done",
                              !.verification_issues = issues,
                              !.result = SyncResult(TRUE, "sync", proc[p].snapshot_id,
                                            proc[p].validation_result \o issues,
                                            proc[p].sync_result.changes_made, TRUE,
                                            <<"Sync completed successfully with full backup available.">>)])]
               /\ audit' = log_operation(audit, logWritable, "SYNC_SUCCESS",
                                         proc[p].operation_id, proc[p].snapshot_id)
    /\ hist' = [hist EXCEPT ![p] = Step(p, "verify")]
    /\ UNCHANGED <<cfg, lib, fs, snaps, logWritable, now, out>>

\* lines 186-192: an exception that escapes _verify_post_sync (the stat of a
\* generated file fails other than with "not found"): SYNC_ERROR, a failed
\* result; no rollback is attempted
VerifyRaises(p) ==
    /\ proc[p].pc = "verifying"
    /\ proc' = [proc EXCEPT ![p] = logged(logWritable, [@ EXCEPT !.pc = "done",
                    !.result = SyncResult(FALSE, "sync", NoId, <<>>, <<>>, FALSE,
                                          <<"Unexpected error during sync">>)])]
    /\ audit' = log_operation(audit, logWritable, "SYNC_ERROR", proc[p].operation_id, NoId)
    /\ hist' = [hist EXCEPT ![p] = [Step(p, "verify") EXCEPT !.fault = TRUE]]
    /\ UNCHANGED <<cfg, lib, fs, snaps, logWritable, now, out>>

\* lines 144-153 and 157-167 with _rollback_to_snapshot: restore the
\* snapshot, j of its files copied back before a copy raises (j = all: none)
Rollback(p) ==
    /\ proc[p].pc = "rolling_back"
    /\ LET sid == proc[p].snapshot_id
           s == snaps[sid]
       IN \E j \in 0..Len(restorable(s)) :
            LET rr == rollback_result(s, sid, j)
            IN /\ fs' = rollback_files(fs, s, j)
               /\ audit' = rollback_log(audit, logWritable, s, sid, j, now)
               /\ proc' = [proc EXCEPT ![p] = logged(logWritable, [@ EXCEPT !.pc = "done",
                     !.result =
                        IF ~proc[p].sync_result.success
                        THEN SyncResult(FALSE, "sync", sid, <<>>, <<>>, rr.success,
                                 <<"Sync failed">> \o proc[p].sync_result.message
                                 \o <<IF rr.success THEN "Rollback successful."
                                      ELSE "Rollback failed.">>)
                        ELSE SyncResult(FALSE, "verify", sid, proc[p].verification_issues,
                                 <<>>, rr.success,
                                 <<"Post-sync verification failed. Changes rolled back.">>)])]
               /\ hist' = [hist EXCEPT ![p] =
                     [Step(p, "rollback") EXCEPT !.rollback = rr,
                                                 !.fault = @ \/ ~rr.success]]
    /\ UNCHANGED <<cfg, lib, snaps, logWritable, now, out>>

\* the clock moves to the next operation-id slot of the same second
TickSlot ==
    /\ now.tick < MaxTick
    /\ now' = [now EXCEPT !.tick = @ + 1]
    /\ UNCHANGED <<cfg, lib, fs, snaps, audit, logWritable, proc, hist, out>>

\* the clock moves to the next second
TickSecond ==
    /\ now.tick < MaxTick
    /\ now' = [sec |-> now.sec + 1, tick |-> now.tick + 1]
    /\ UNCHANGED <<cfg, lib, fs, snaps, audit, logWritable, proc, hist, out>>

Next ==
    \/ \E p \in Procs :
          \/ Start(p)
          \/ Validate(p)
          \/ ValidateRaises(p)
          \/ Snapshot(p)
          \/ Sync(p)
          \/ Verify(p)
          \/ VerifyRaises(p)
          \/ Rollback(p)
    \/ TickSlot
    \/ TickSecond

Spec == Init /\ [][Next]_vars

----------------------------------------------------------------------------
(* Properties *)

Done(p) == proc[p].pc = "done"

Entered(p, phase) == phase \in Range(hist[p].trace)

GeneratedFiles == {GeneratedFile(cfg.targets[i]) : i \in 1..Len(cfg.targets)}

\* the sync failed in the write phase, after its snapshot was captured
WriteFailed(p) ==
    Done(p) /\ Entered(p, "sync") /\ ~proc[p].sync_result.success

\* the snapshot an invocation captures is the one named after its operation id
OwnSnapshot(p) == snaps[snapshot_id_of(proc[p].operation_id)]

\* C1: a pre-sync error without force ends the sync at validation with
\* success=false and operation VALIDATE; no snapshot exists, no phase after
\* validation was entered, and every project file is as it was at the call.
C1_ValidationAbortMutatesNothing ==
    \A p \in Procs :
        (~proc[p].force /\ HasError(proc[p].validation_result)) =>
            /\ Done(p)
            /\ ~proc[p].result.success
            /\ proc[p].result.operation = "validate"
            /\ proc[p].result.issues = proc[p].validation_result
            /\ ~Entered(p, "snapshot") /\ ~Entered(p, "sync")
            /\ \A s \in SnapIds : snaps[s] = NoSnap
            /\ fs = hist[p].pre

C1_Witness ==
    \E p \in Procs :
        /\ Done(p) /\ ~proc[p].force
        /\ proc[p].result.operation = "validate"
        /\ \E i \in 1..Len(proc[p].validation_result) :
              /\ proc[p].validation_result[i].severity = "error"
              /\ proc[p].validation_result[i].message = "Referenced module does not exist"
        /\ Exists(hist[p].pre[GeneratedFile("claude")])

\* C2: after a sync that failed once its snapshot was captured and whose
\* rollback reported success, the project's files and their contents equal
\* those at the call (files the sync created and the metadata record included).
C2_RollbackRestoresProject ==
    \A p \in Procs :
        (Done(p) /\ Entered(p, "rollback") /\ hist[p].rollback.success) =>
            fs = hist[p].pre

\* C3: from a project without generated artifacts, with a valid configuration
\* whose modules all exist, no force and no I/O failure, a sync of all targets
\* succeeds, each generated file holds the modules in declared order, and
\* exactly one snapshot, tagged pre_sync, exists.
C3_FreshSyncSucceeds ==
    \A p \in Procs :
        (/\ Done(p) /\ ~hist[p].fault /\ ~proc[p].force
         /\ proc[p].target = None
         /\ cfg.options.split_strategy = "monolithic"
         /\ hist[p].pre[ConfigFile] = ValidYaml
         /\ \A f \in GeneratedFiles : ~Exists(hist[p].pre[f])
         /\ \A i \in 1..Len(cfg.includes) : ModuleExists(lib, cfg.includes[i])
         /\ ~HasError(proc[p].validation_result)) =>
            /\ proc[p].result.success
            /\ \A i \in 1..Len(cfg.targets) :
                  SelectSeq(fs[GeneratedFile(cfg.targets[i])].parts,
                            LAMBDA x : x \in ModuleIds) = cfg.includes
            /\ Cardinality({s \in SnapIds : snaps[s].meta.status = "ok"}) = 1
            /\ \A s \in SnapIds : snaps[s].dir => snaps[s].meta.operation = "pre_sync"

\* C4: every generated artifact the write phase has written holds the
\* marker "Generated by clyde".
C4_WrittenArtifactsHaveMarker ==
    \A p \in Procs :
        proc[p].pc = "verifying" =>
            \A f \in GeneratedFiles : f \in hist[p].wrote => HasMarker(fs[f])

\* C5: without force, a write phase that succeeded and a verification that
\* found no error-severity issue end in success, the verification's issues
\* among the result's issues.
C5_WarningsDoNotRollBack ==
    \A p \in Procs :
        (/\ Done(p) /\ ~proc[p].force
         /\ proc[p].sync_result.success
         /\ ~HasError(proc[p].verification_issues)) =>
            /\ proc[p].result.success
            /\ \A i \in 1..Len(proc[p].verification_issues) :
                  proc[p].verification_issues[i] \in Range(proc[p].result.issues)

\* C6 as claimed: a write phase that fails after the snapshot ends with
\* success=false, rollback_available=true and every generated artifact that
\* existed at the call holding its content of then.
C6_WriteFailureRestores ==
    \A p \in Procs :
        WriteFailed(p) =>
            /\ ~proc[p].result.success
            /\ proc[p].result.rollback_available
            /\ \A f \in GeneratedFiles : Exists(hist[p].pre[f]) => fs[f] = hist[p].pre[f]

\* C6 amended: a write phase that fails after the snapshot ends with
\* success=false, operation SYNC and rollback_available equal to the
\* rollback's success; when the rollback succeeded, every generated artifact
\* that existed at the call holds its content of then.
C6_WriteFailureRestoresIfRollbackSucceeds ==
    \A p \in Procs :
        WriteFailed(p) =>
            /\ ~proc[p].result.success
            /\ proc[p].result.operation = "sync"
            /\ proc[p].result.rollback_available = hist[p].rollback.success
            /\ hist[p].rollback.success =>
                  \A f \in GeneratedFiles : Exists(hist[p].pre[f]) => fs[f] = hist[p].pre[f]

C6_Witness ==
    \E p \in Procs :
        /\ WriteFailed(p)
        /\ hist[p].rollback.success
        /\ proc[p].result.rollback_available
        /\ \E f \in GeneratedFiles : f \in hist[p].wrote /\ Exists(hist[p].pre[f])

\* C7: when the capture of the snapshot failed (its snapshot.json was not
\* written), the sync ends with success=false and operation BACKUP, the write
\* phase is never entered and no project file changes.
C7_SnapshotFailureStopsSync ==
    \A p \in Procs :
        (Entered(p, "snapshot") /\ OwnSnapshot(p).meta.status # "ok") =>
            /\ Done(p)
            /\ ~proc[p].result.success
            /\ proc[p].result.operation = "backup"
            /\ ~Entered(p, "sync")
            /\ hist[p].wrote = {}
            /\ fs = hist[p].pre

C7_Witness ==
    \E p \in Procs :
        /\ Done(p) /\ proc[p].result.operation = "backup"
        /\ OwnSnapshot(p).dir
        /\ \E f \in Files : Exists(OwnSnapshot(p).copies[f])
        /\ OwnSnapshot(p).meta.status # "ok"

\* C8: a step of an invocation that writes a project file in the write
\* phase starts in a state where that invocation's snapshot is captured:
\* snapshot.json is written under the invocation's operation id, it lists
\* exactly the files to back up, and each copy equals the file as it is
\* before the write.
C8_SnapshotBeforeWrite ==
    [][\A p \in Procs :
          (hist'[p].wrote # {} /\ hist'[p].wrote # hist[p].wrote) =>
              LET s == snaps[proc[p].snapshot_id]
              IN /\ proc[p].snapshot_id # NoId
                 /\ s.meta.status = "ok"
                 /\ s.meta.operation_id = proc[p].operation_id
                 /\ \A f \in Files :
                       /\ Exists(s.meta.files[f]) <=> f \in Range(files_to_backup(cfg, fs))
                       /\ Exists(s.meta.files[f]) => s.copies[f] = fs[f]]_vars

C8_Witness ==
    \E p \in Procs :
        /\ GeneratedFile("claude") \in hist[p].wrote
        /\ MetadataFile \in hist[p].wrote
        /\ Exists(hist[p].pre[GeneratedFile("claude")])

\* C9: with force, an error found by pre-sync validation does not end the
\* sync: the snapshot phase comes next and the result is never the VALIDATE
\* failure.
C9_ForceProceedsToSnapshot ==
    \A p \in Procs :
        (proc[p].force /\ HasError(proc[p].validation_result)) =>
            /\ proc[p].pc = "snapshotting" \/ Entered(p, "snapshot")
            /\ proc[p].result.operation # "validate"

C9_Witness ==
    \E p \in Procs :
        /\ proc[p].force /\ HasError(proc[p].validation_result)
        /\ Entered(p, "snapshot")
        /\ OwnSnapshot(p).dir

\* C10: with force, a configured target and no I/O failure, a sync whose
\* pre-sync validation found an error still succeeds, whatever the
\* validation level.
C10_ForcedErrorNeverFatal ==
    \A p \in Procs :
        (/\ Done(p) /\ proc[p].force /\ ~hist[p].fault
         /\ HasError(proc[p].validation_result)
         /\ proc[p].target \in {None} \cup Range(cfg.targets)) =>
            proc[p].result.success

----------------------------------------------------------------------------
(* Snapshot management and the audit trail *)

\* the snapshots list_snapshots reports: directories whose snapshot.json parses
Listed(s) == {i \in DOMAIN s : s[i].dir /\ s[i].meta.status = "ok"}

\* list_snapshots: the listed ids sorted by timestamp, newest first; the
\* order among equal timestamps is that of iterdir, which is arbitrary.
\* The set of the lists the call may return.
list_snapshots(s) ==
    LET n == Cardinality(Listed(s))
    IN {q \in [1..n -> Listed(s)] :
           /\ \A i, j \in 1..n : i # j => q[i] # q[j]
           /\ \A i, j \in 1..n :
                 i < j => s[q[i]].meta.timestamp >= s[q[j]].meta.timestamp}

\* a slice that drops the oldest keep_count entries instead of the newest
Slice_keeping_oldest(L, k) == SubSeq(L, 1, Len(L) - k)

\* snapshots[keep_count:]
Slice(L, k) ==
    IF k >= 0 THEN SubSeq(L, k + 1, Len(L))
    ELSE SubSeq(L, IF Len(L) + k + 1 < 1 THEN 1 ELSE Len(L) + k + 1, Len(L))

\* how shutil.rmtree of a snapshot directory may end: everything removed, or
\* an exception before anything was removed, after a backed-up copy was
\* removed, or after snapshot.json was removed
RmOutcomes == {"removed", "fail", "fail_lost_copy", "fail_lost_meta"}

\* a CLI session makes at most two calls, a cleanup only as the first
FirstCall == out.op = "none"

SecondCall == out.op = "cleanup"

rmtree(snap, how) ==
    LET present == SelectSeq(BackupOrder, LAMBDA x : Exists(snap.copies[x]))
    IN CASE how = "removed"        -> NoSnap
         [] how = "fail"           -> snap
         [] how = "fail_lost_copy" ->
                IF present = <<>> THEN snap
                ELSE [snap EXCEPT !.copies[Head(present)] = Absent]
         [] how = "fail_lost_meta" -> [snap EXCEPT !.meta = NoMeta]

\* cleanup_old_snapshots: the snapshot store it leaves behind
cleanup_store(s, L, keep_count, how) ==
    IF Len(L) <= keep_count THEN s
    ELSE LET gone == Range(Slice(L, keep_count))
         IN [i \in DOMAIN s |-> IF i \in gone THEN rmtree(s[i], how[i]) ELSE s[i]]

\* cleanup_old_snapshots: the dictionary it returns
cleanup_old_snapshots(s, L, keep_count, how) ==
    IF Len(L) <= keep_count
    THEN [removed |-> 0, kept |-> Len(L), errors |-> <<>>]
    ELSE LET rem == Slice(L, keep_count)
             done == SelectSeq(rem, LAMBDA i : how[i] = "removed")
         IN [removed |-> Len(done), kept |-> Len(L) - Len(done),
             errors |-> SelectSeq(rem, LAMBDA i : how[i] # "removed")]

\* a line of audit.log that json.loads rejects (a torn or interleaved write)
Garbage == Entry("", NoId, NoId)

Parseable(line) == line.event # ""

\* lines[-limit:] if len(lines) > limit else lines
recent_lines(lines, limit) ==
    IF Len(lines) > limit
    THEN (IF limit = 0 THEN lines
          ELSE SubSeq(lines, Len(lines) - limit + 1, Len(lines)))
    ELSE lines

\* get_audit_trail: the parseable lines among the last limit lines
get_audit_trail(log, limit) == SelectSeq(recent_lines(log, limit), Parseable)


\* the CLI's snapshots --list
ListSnapshots ==
    /\ FirstCall \/ SecondCall
    /\ \E L \in list_snapshots(snaps) : out' = [op |-> "list", value |-> L]
    /\ UNCHANGED <<cfg, lib, fs, snaps, audit, logWritable, now, proc, hist>>

\* the CLI's snapshots --cleanup --keep keep_count
Cleanup(keep_count) ==
    /\ FirstCall
    /\ \E L \in list_snapshots(snaps) :
         \E how \in [Range(Slice(L, keep_count)) -> RmOutcomes] :
            /\ snaps' = cleanup_store(snaps, L, keep_count, how)
            /\ out' = [op |-> "cleanup", keep_count |-> keep_count,
                       result |-> cleanup_old_snapshots(snaps, L, keep_count, how)]
    /\ UNCHANGED <<cfg, lib, fs, audit, logWritable, now, proc, hist>>

\* the CLI's snapshots --rollback snapshot_id: _rollback_to_snapshot, j of the
\* restorable files copied back before a copy raises (j = all: none raises)
RollbackTo(snapshot_id) ==
    /\ FirstCall \/ SecondCall
    /\ LET s == snaps[snapshot_id]
       IN \E j \in 0..Len(restorable(s)) :
            /\ fs' = rollback_files(fs, s, j)
            /\ audit' = rollback_log(audit, logWritable, s, snapshot_id, j, now)
            /\ out' = [op |-> "rollback", snapshot_id |-> snapshot_id,
                       result |-> rollback_result(s, snapshot_id, j)]
    /\ UNCHANGED <<cfg, lib, snaps, logWritable, now, proc, hist>>

\* the CLI's audit --limit limit
GetAuditTrail(limit) ==
    /\ FirstCall
    /\ out' = [op |-> "trail", limit |-> limit, value |-> get_audit_trail(audit, limit)]
    /\ UNCHANGED <<cfg, lib, fs, snaps, audit, logWritable, now, proc, hist>>

----------------------------------------------------------------------------
(* A snapshot store left by earlier syncs, then managed from the CLI *)

StoreIds == 0..(MaxSnaps - 1)

KeepCounts == 0..MaxSnaps

\* the project as it was when the stored snapshots were captured
SyncedProject ==
    Project(ValidYaml, OldGenerated("claude"), OldGenerated("gemini"),
            OldMeta(CurrentVersion), Absent)

\* a snapshot captured in full at time t under operation id i
Captured(c, i, t) ==
    create_snapshot(NoSnap, c, SyncedProject, [sec |-> 0, tick |-> t], i,
                    Len(files_to_backup(c, SyncedProject)) + 1, FALSE)

\* a capture that failed after its first copy: no snapshot.json
FailedCapture(c, i) ==
    create_snapshot(NoSnap, c, SyncedProject, [sec |-> 0, tick |-> 0], i, 1, FALSE)

StoredKinds == {<<"none", 0>>, <<"failed", 0>>} \cup {<<"ok", t>> : t \in 0..MaxStamp}

Stored(c, i, kind) ==
    CASE kind[1] = "none"   -> NoSnap
      [] kind[1] = "failed" -> FailedCapture(c, i)
      [] OTHER              -> Captured(c, i, kind[2])

InitMaint ==
    /\ cfg \in Configs
    /\ cfg.includes = <<"core.tdd", "core.dry">>
    /\ cfg.options.validation_level = "normal"
    /\ cfg.options.split_strategy = "monolithic"
    /\ lib = [m \in ModuleIds |-> TRUE]
    /\ fs = Project(ValidYaml, HandEdited, OldGenerated("gemini"),
                    OldMeta(CurrentVersion), Absent)
    /\ \E kinds \in [StoreIds -> StoredKinds] :
          snaps = [i \in StoreIds |-> Stored(cfg, i, kinds[i])]
    /\ audit = <<>>
    /\ logWritable = TRUE
    /\ now = [sec |-> 0, tick |-> 0]
    /\ proc = [p \in Procs |-> InitProc("off")]
    /\ hist = [p \in Procs |-> InitHist(fs)]
    /\ out = NoOut

NextMaint ==
    \/ ListSnapshots
    \/ \E keep_count \in KeepCounts : Cleanup(keep_count)
    \/ \E snapshot_id \in StoreIds : RollbackTo(snapshot_id)

SpecMaint == InitMaint /\ [][NextMaint]_vars

----------------------------------------------------------------------------
(* Two invocations on the same project, sequential or overlapping *)

\* a project synced before under the includes strategy, every module present
InitTwo ==
    /\ InitCommon
    /\ cfg.includes = <<"core.tdd", "core.dry">>
    /\ cfg.options.validation_level = "normal"
    /\ cfg.options.split_strategy = "includes"
    /\ \A m \in ModuleIds : lib[m]
    /\ fs = SyncedProject
    /\ logWritable = TRUE
    /\ proc = [p \in Procs |-> InitProc("idle")]

LowDisk(issues) == \E i \in 1..Len(issues) : issues[i].message = "Low disk space"

\* both calls are bulletproof_sync() with ample disk space; the capture of a
\* snapshot may fail, the writes do not, so verification passes and no
\* rollback is entered.  One CLI call (list, rollback, audit) may come in
\* between.
NextTwo ==
    \/ \E p \in Procs :
          \/ Start(p) /\ proc'[p].target = None /\ ~proc'[p].force
          \/ Validate(p) /\ ~LowDisk(proc'[p].validation_result)
          \/ Snapshot(p)
          \/ Sync(p) /\ ~hist'[p].fault
          \/ Verify(p)
    \/ TickSlot
    \/ TickSecond
    \/ ListSnapshots
    \/ \E snapshot_id \in SnapIds : RollbackTo(snapshot_id)
    \/ \E limit \in 0..1 : GetAuditTrail(limit)

SpecTwo == InitTwo /\ [][NextTwo]_vars

----------------------------------------------------------------------------
(* Properties of snapshots across invocations *)

\* C11: two invocations capture into distinct snapshot directories: once a
\* snapshot's snapshot.json is written, no later step adds, replaces or
\* rewrites a backed-up copy or the metadata of that snapshot.
C11_CapturedSnapshotNeverRewritten ==
    [][\A i \in SnapIds : snaps[i].meta.status = "ok" => snaps'[i] = snaps[i]]_vars

\* C12: without cleanup, every step of sync, rollback, list and audit tail
\* leaves every listed snapshot listed and restorable: the same mapping with
\* the same backed-up copies.
C12_OnlyCleanupRemovesSnapshots ==
    [][\A i \in Listed(snaps) :
          /\ i \in Listed(snaps')
          /\ restorable(snaps'[i]) = restorable(snaps[i])
          /\ \A f \in Range(restorable(snaps[i])) :
                snaps'[i].copies[f] = snaps[i].copies[f]]_vars


\* C13: a cleanup_old_snapshots(keep_count) that meets no deletion failure,
\* with n listed snapshots: if n <= keep_count nothing is deleted and it
\* reports removed=0, kept=n; otherwise exactly n - keep_count snapshots are
\* deleted, none of them newer than a remaining one, and it reports
\* removed = n - keep_count, kept = keep_count.
C13_CleanupKeepsNewest ==
    [][(out.op = "none" /\ out'.op = "cleanup" /\ out'.result.errors = <<>>) =>
          LET n == Cardinality(Listed(snaps))
              keep_count == out'.keep_count
              gone == Listed(snaps) \ Listed(snaps')
          IN IF n <= keep_count
             THEN /\ snaps' = snaps
                  /\ out'.result.removed = 0
                  /\ out'.result.kept = n
             ELSE /\ Cardinality(gone) = n - keep_count
                  /\ Cardinality(Listed(snaps')) = keep_count
                  /\ \A i \in gone : snaps'[i] = NoSnap
                  /\ \A i \in DOMAIN snaps \ gone : snaps'[i] = snaps[i]
                  /\ \A i \in gone, j \in Listed(snaps') :
                        snaps[j].meta.timestamp >= snaps[i].meta.timestamp
                  /\ out'.result.removed = n - keep_count
                  /\ out'.result.kept = keep_count]_vars

C13_Witness ==
    /\ out.op = "cleanup" /\ out.keep_count = 1
    /\ out.result.removed = 2 /\ out.result.kept = 1 /\ out.result.errors = <<>>
    /\ Cardinality(Listed(snaps)) = 1
    /\ \E i \in Listed(snaps) : snaps[i].meta.timestamp = MaxStamp

----------------------------------------------------------------------------
(* An audit log that cannot always be written *)

\* the audit log becomes unwritable, or writable again, between two steps
LogFlips ==
    /\ logWritable' = ~logWritable
    /\ UNCHANGED <<cfg, lib, fs, snaps, audit, now, proc, hist, out>>

InitAudit ==
    /\ InitCommon
    /\ cfg.options.validation_level = "normal"
    /\ logWritable \in BOOLEAN
    /\ proc = [p \in Procs |-> InitProc(IF p = "p1" THEN "idle" ELSE "off")]

NextAudit ==
    \/ \E p \in Procs :
          \/ Start(p)
          \/ Validate(p)
          \/ ValidateRaises(p)
          \/ Snapshot(p)
          \/ Sync(p)
          \/ Verify(p)
          \/ VerifyRaises(p)
          \/ Rollback(p)
    \/ LogFlips

SpecAudit == InitAudit /\ [][NextAudit]_vars

\* the result bulletproof_sync returns, read off the outcomes of its phases
Outcome(p) ==
    LET l == proc[p]
        h == hist[p]
        last == h.trace[Len(h.trace)]
        error == SyncResult(FALSE, "sync", NoId, <<>>, <<>>, FALSE,
                            <<"Unexpected error during sync">>)
    IN CASE last = "validate" /\ h.fault -> error
         [] last = "validate" /\ ~h.fault ->
                SyncResult(FALSE, "validate", NoId, l.validation_result, <<>>, FALSE,
                           <<"Pre-sync validation failed. Use --force to override.">>)
         [] last = "snapshot" ->
                SyncResult(FALSE, "backup", NoId, <<>>, <<>>, FALSE,
                           <<"Failed to create backup snapshot">>)
         [] last = "verify" /\ h.fault -> error
         [] last = "verify" /\ ~h.fault ->
                SyncResult(TRUE, "sync", l.snapshot_id,
                           l.validation_result \o l.verification_issues,
                           l.sync_result.changes_made, TRUE,
                           <<"Sync completed successfully with full backup available.">>)
         [] last = "rollback" /\ ~l.sync_result.success ->
                SyncResult(FALSE, "sync", l.snapshot_id, <<>>, <<>>, h.rollback.success,
                           <<"Sync failed">> \o l.sync_result.message
                           \o <<IF h.rollback.success THEN "Rollback successful."
                                ELSE "Rollback failed.">>)
         [] last = "rollback" /\ l.sync_result.success ->
                SyncResult(FALSE, "verify", l.snapshot_id, l.verification_issues, <<>>,
                           h.rollback.success,
                           <<"Post-sync verification failed. Changes rolled back.">>)
         [] OTHER -> NoResult

\* C14: whether or not the writes to the audit log succeed, no exception
\* leaves bulletproof_sync because of them, the invocation moves through its
\* phases as their outcomes dictate and ends with the result those outcomes
\* determine, and the snapshot it reports is the one it captured.
C14_AuditFailureChangesNothing ==
    \A p \in Procs :
        /\ proc[p].result.operation # "raised"
        /\ Done(p) => proc[p].result = Outcome(p)
        /\ (proc[p].pc # "off" /\ proc[p].snapshot_id # NoId) =>
              snaps[proc[p].snapshot_id].meta.status = "ok"
        /\ (proc[p].pc \notin {"off", "idle"} /\ ~Entered(p, "sync")) => fs = hist[p].pre

\* a sync that succeeded and wrote its artifacts while every write to the audit
\* log failed
C14_Witness ==
    /\ Done("p1")
    /\ proc["p1"].result.success
    /\ hist["p1"].wrote # {}
    /\ audit = <<>>
    /\ ~logWritable

----------------------------------------------------------------------------
(* Properties of the audit trail *)

\* C15: every finished invocation whose SYNC_START entry is in the audit log
\* has a later entry in the log recording how it ended.
C15_OutcomeLogged ==
    \A p \in Procs :
        \A i \in DOMAIN audit :
            (/\ Done(p)
             /\ audit[i].event = "SYNC_START"
             /\ audit[i].operation_id = proc[p].operation_id)
            => \E j \in DOMAIN audit : j > i

----------------------------------------------------------------------------
(* get_audit_trail over a log left by earlier operations *)

MaxLines == 4

\* the lines an audit log can hold: entries of two operations and a line that
\* is not JSON (a torn or hand-edited line)
LineChoices ==
    {Entry("SYNC_START", 0, NoId), Entry("SYNC_SUCCESS", 1, 0), Garbage}

Logs == UNION {[1..n -> LineChoices] : n \in 0..MaxLines}

\* the log as earlier operations left it
InitTrail ==
    /\ cfg \in Configs
    /\ cfg.includes = <<"core.tdd", "core.dry">>
    /\ cfg.options.validation_level = "normal"
    /\ cfg.options.split_strategy = "monolithic"
    /\ lib = [m \in ModuleIds |-> TRUE]
    /\ fs = SyncedProject
    /\ snaps = [s \in SnapIds |-> NoSnap]
    /\ audit \in Logs
    /\ logWritable = TRUE
    /\ now = [sec |-> 0, tick |-> 0]
    /\ proc = [p \in Procs |-> InitProc("off")]
    /\ hist = [p \in Procs |-> InitHist(fs)]
    /\ out = NoOut

NextTrail == \E limit \in 0..MaxLines : GetAuditTrail(limit)

SpecTrail == InitTrail /\ [][NextTrail]_vars

Min(a, b) == IF a < b THEN a ELSE b

\* the last n elements of a sequence
Last(s, n) == SubSeq(s, Len(s) - n + 1, Len(s))

\* C16: get_audit_trail(limit) returns the last min(limit, p) parseable
\* entries of the log in file order, p being the number of parseable lines.
C16_TrailIsLastParseableEntries ==
    out.op = "trail" =>
        LET entries == SelectSeq(audit, Parseable)
        IN out.value = Last(entries, Min(out.limit, Len(entries)))

----------------------------------------------------------------------------
(* Properties of a manual rollback *)

\* the project-relative paths of a snapshot's mapping
MappingKeys(s) == {f \in Files : Exists(s.meta.files[f])}

\* C17: a rollback to a snapshot with readable metadata that reports success
\* has put every file of the snapshot's mapping back in the project, and its
\* changes_made are exactly the keys of the mapping.
C17_RollbackRestoresWholeMapping ==
    [][(/\ out.op # "rollback"
        /\ out'.op = "rollback"
        /\ snaps[out'.snapshot_id].dir
        /\ snaps[out'.snapshot_id].meta.status = "ok"
        /\ out'.result.success)
       => /\ \A f \in MappingKeys(snaps[out'.snapshot_id]) :
                fs'[f] = snaps[out'.snapshot_id].meta.files[f]
          /\ Range(out'.result.changes_made) = MappingKeys(snaps[out'.snapshot_id])]_vars


\* C18: a rollback to a snapshot id whose directory or whose snapshot.json
\* does not exist returns a failed result of operation "rollback", raises
\* nothing and leaves every project file as it was.
C18_MissingSnapshotRollbackFails ==
    [][(/\ out.op # "rollback"
        /\ out'.op = "rollback"
        /\ (~snaps[out'.snapshot_id].dir \/ snaps[out'.snapshot_id].meta.status = "none"))
       => /\ ~out'.result.success
          /\ out'.result.operation = "rollback"
          /\ out'.result.message # <<>>
          /\ fs' = fs
          /\ audit' = audit]_vars

\* a rollback was asked of a snapshot directory that holds no snapshot.json
C18_Witness ==
    /\ out.op = "rollback"
    /\ snaps[out.snapshot_id].dir
    /\ snaps[out.snapshot_id].meta.status = "none"
    /\ out.result.message = <<"Snapshot metadata not found">>

----------------------------------------------------------------------------
(* Properties of the results of a failed invocation *)

\* C19: an invocation that failed after its snapshot was captured returns a
\* failed result, not an exception, after a rollback to that snapshot was
\* attempted, and the result carries the snapshot id.
C19_FailureAfterSnapshotRollsBack ==
    \A p \in Procs :
        (Done(p) /\ proc[p].snapshot_id # NoId /\ ~proc[p].result.success)
        => /\ proc[p].result.operation # "raised"
           /\ Entered(p, "rollback")
           /\ proc[p].result.snapshot_id = proc[p].snapshot_id


\* C20: every failed result has a message and carries the issues the
\* invocation found, and when a rollback restored files the result names them.
C20_FailureResultIsComplete ==
    \A p \in Procs :
        (Done(p) /\ ~proc[p].result.success)
        => /\ proc[p].result.message # <<>>
           /\ Range(proc[p].validation_result) \cup Range(proc[p].verification_issues)
                 \subseteq Range(proc[p].result.issues)
           /\ Entered(p, "rollback") =>
                 Range(hist[p].rollback.changes_made) \subseteq Range(proc[p].result.changes_made)


\* the parts of a message that say the changes were rolled back
SaysRolledBack ==
    {"Rollback successful.", "Post-sync verification failed. Changes rolled back."}

\* C21: in both failure paths that roll back, the result says the rollback
\* succeeded exactly when it did: rollback_available is the success of the
\* rollback attempt, and the message does not say the changes were rolled
\* back when the rollback failed.
C21_ResultTellsRollbackOutcome ==
    \A p \in Procs :
        (Done(p) /\ Entered(p, "rollback"))
        => /\ proc[p].result.rollback_available = hist[p].rollback.success
           /\ ~hist[p].rollback.success =>
                 Range(proc[p].result.message) \cap SaysRolledBack = {}

----------------------------------------------------------------------------
(* Properties of repeated and concurrent invocations *)

\* invocation q began after the successful invocation p had written its
\* metadata record, the last write of p's sync phase; q met no failure of the
\* file system and no snapshot was restored by hand meanwhile
InARow(p, q) ==
    /\ p # q
    /\ Done(p) /\ Done(q)
    /\ proc[p].result.success
    /\ hist[p].pre[MetadataFile].hash = <<>>
    /\ hist[q].pre[MetadataFile].hash # <<>>
    /\ ~hist[q].fault
    /\ out = NoOut

\* C22: of two invocations in a row on an unchanged configuration, the second
\* succeeds with an empty changes_made and leaves every generated artifact as
\* the first wrote it.
C22_SecondRunChangesNothing ==
    \A p, q \in Procs :
        InARow(p, q)
        => /\ proc[q].result.success
           /\ proc[q].result.changes_made = <<>>
           /\ \A f \in GeneratedFiles : fs[f] = hist[q].pre[f]

----------------------------------------------------------------------------
(* Properties of the write phase *)

C24_SnapshotCoversWrittenFiles ==
    \A p \in Procs :
        (proc[p].pc # "off" /\ proc[p].snapshot_id # NoId)
        => \A f \in hist[p].wrote :
              Exists(hist[p].pre[f])
              => /\ Exists(snaps[proc[p].snapshot_id].meta.files[f])
                 /\ snaps[proc[p].snapshot_id].copies[f] = hist[p].pre[f]

----------------------------------------------------------------------------
(* ClydeConfig: construction, module list, save and load *)

\* an empty dict
EmptyDict == [k \in {} |-> TRUE]

\* _set_default_options
DefaultOptions ==
    [show_module_boundaries |-> TRUE, include_toc |-> TRUE, validation_level |-> "normal"]

\* _get_framework_modules
get_framework_modules(framework) ==
    IF framework = "fastapi" THEN <<"fastapi.structure", "fastapi.patterns">> ELSE <<>>

\* _set_default_includes, for language "python"
default_includes(c) ==
    <<"core.tdd", "core.modularity", "core.dry", "core.general",
      "python.general", "python.testing">>
    \o (IF c.framework # None THEN get_framework_modules(c.framework) ELSE <<>>)
    \o (IF c.database # None THEN <<c.database>> ELSE <<>>)

\* __post_init__: an empty module list and an empty options mapping are
\* replaced by the defaults
post_init(c) ==
    [c EXCEPT !.includes = IF @ = <<>> THEN default_includes(c) ELSE @,
              !.options = IF DOMAIN @ = {} THEN DefaultOptions ELSE @]

\* an add_module that appends without looking
add_module_always(c, module_id) == [c EXCEPT !.includes = Append(@, module_id)]

\* add_module: append unless already in the list
add_module(c, module_id) ==
    IF module_id \notin Range(c.includes)
    THEN [c EXCEPT !.includes = Append(@, module_id)]
    ELSE c

\* list.remove: drop the first occurrence
RECURSIVE remove_first(_, _)
remove_first(s, x) ==
    IF s = <<>> THEN <<>>
    ELSE IF Head(s) = x THEN Tail(s)
    ELSE <<Head(s)>> \o remove_first(Tail(s), x)

\* remove_module
remove_module(c, module_id) ==
    IF module_id \in Range(c.includes)
    THEN [c EXCEPT !.includes = remove_first(@, module_id)]
    ELSE c

\* from_dict over a mapping that holds every key to_dict writes; the
\* database tag and the targets are not read from the mapping
from_dict(data) ==
    post_init([project_name |-> data.project.name, language |-> data.project.language,
               framework |-> data.project.framework, database |-> None,
               project_type |-> data.project.type, includes |-> data.includes,
               custom_modules |-> data.custom_modules, options |-> data.options,
               version |-> data.version, targets |-> <<"claude", "gemini">>])

\* what config.yaml.template can hold besides the four rendered fields
TemplateBodies ==
    {[includes |-> inc, options |-> opt] :
        inc \in {<<>>, <<"core.tdd", "core.dry">>},
        opt \in {EmptyDict, DefaultOptions}}

\* save: the text written, from the template when it exists (rendered from
\* the project name, type, language and framework alone), else the YAML dump
\* of to_dict
save(c, template_exists) ==
    IF template_exists
    THEN Content("template",
                 <<c.project_name, c.project_type, c.language,
                   IF c.framework # None THEN c.framework ELSE "">>, 0, <<>>)
    ELSE Content("yaml", <<to_dict(c)>>, 0, <<>>)

\* yaml.safe_load of a saved file
safe_load(text, body) ==
    IF text.kind = "template"
    THEN [version |-> "1.0",
          project |-> [name |-> text.parts[1], type |-> text.parts[2],
                       language |-> text.parts[3], framework |-> text.parts[4]],
          includes |-> body.includes, custom_modules |-> <<>>, options |-> body.options]
    ELSE text.parts[1]

\* from_file
from_file(text, body) == from_dict(safe_load(text, body))

\* .claude/config.yaml, where save() writes when given no path
LegacyConfigFile == ".claude/config.yaml"

\* the modules add_module and remove_module are called with
EditIds == {"core.tdd", "docker"}

\* ClydeConfig(project_name="app", language="python", ...)
ConfigValues ==
    {post_init([project_name |-> "app", language |-> "python", framework |-> fw,
                database |-> None, project_type |-> "application", includes |-> inc,
                custom_modules |-> <<>>, options |-> opt, version |-> "1.0",
                targets |-> tg]) :
        fw \in {None, "fastapi"},
        inc \in {<<>>, <<"core.tdd">>, <<"core.tdd", "core.dry">>, <<"core.dry", "core.tdd">>},
        opt \in {EmptyDict,
                 [validation_level |-> "strict", include_toc |-> TRUE,
                  split_strategy |-> "includes"]},
        tg \in {<<"claude", "gemini">>, <<"claude">>}}

InitConfig ==
    /\ cfg \in ConfigValues
    /\ lib = [m \in ModuleIds |-> TRUE]
    /\ fs = [f \in Files \cup {LegacyConfigFile} |->
                IF f = ConfigFile THEN save(cfg, FALSE) ELSE Absent]
    /\ snaps = [s \in SnapIds |-> NoSnap]
    /\ audit = <<>>
    /\ logWritable = TRUE
    /\ now = [sec |-> 0, tick |-> 0]
    /\ proc = [p \in Procs |-> InitProc("off")]
    /\ hist = [p \in Procs |-> InitHist(fs)]
    /\ out = NoOut

\* cli sync --add
AddModule(module_id) ==
    /\ out.op = "none"
    /\ cfg' = add_module(cfg, module_id)
    /\ UNCHANGED <<lib, fs, snaps, audit, logWritable, now, proc, hist, out>>

\* cli sync --remove
RemoveModule(module_id) ==
    /\ out.op = "none"
    /\ cfg' = remove_module(cfg, module_id)
    /\ UNCHANGED <<lib, fs, snaps, audit, logWritable, now, proc, hist, out>>

\* config.save() and config.save(config_file)
Save(config_file) ==
    /\ out.op = "none"
    /\ \E template_exists \in BOOLEAN :
          /\ fs' = [fs EXCEPT ![IF config_file = None THEN LegacyConfigFile ELSE config_file] =
                                  save(cfg, template_exists)]
          /\ out' = [op |-> "save", config_file |-> config_file]
    /\ UNCHANGED <<cfg, lib, snaps, audit, logWritable, now, proc, hist>>

\* the next command: ClydeConfig.from_file(.clyde/config.yaml)
Load ==
    /\ out.op = "save"
    /\ \E body \in TemplateBodies :
          out' = [op |-> "load", config_file |-> out.config_file,
                  value |-> from_file(fs[ConfigFile], body)]
    /\ UNCHANGED <<cfg, lib, fs, snaps, audit, logWritable, now, proc, hist>>

NextConfig ==
    \/ \E module_id \in EditIds : AddModule(module_id)
    \/ \E module_id \in EditIds : RemoveModule(module_id)
    \/ \E config_file \in {None, ConfigFile} : Save(config_file)
    \/ Load

SpecConfig == InitConfig /\ [][NextConfig]_vars

----------------------------------------------------------------------------
(* Properties of ClydeConfig *)

\* the configurations the current one is compared with: every constructed
\* one, and the one just loaded
Others == ConfigValues \cup (IF out.op = "load" THEN {out.value} ELSE {})

SameIdentity(c, d) ==
    /\ c.project_name = d.project_name
    /\ c.project_type = d.project_type
    /\ c.language = d.language
    /\ c.framework = d.framework

\* C25: configurations with the same identity, module list, options and
\* targets have the same hash however they were built, and configurations
\* that differ in the module list, the options or the targets have different
\* hashes.
C25_HashCapturesContent ==
    \A d \in Others :
        /\ (/\ SameIdentity(cfg, d)
            /\ cfg.includes = d.includes
            /\ cfg.options = d.options
            /\ cfg.targets = d.targets)
           => get_config_hash(cfg) = get_config_hash(d)
        /\ (\/ cfg.includes # d.includes
            \/ cfg.options # d.options
            \/ cfg.targets # d.targets)
           => get_config_hash(cfg) # get_config_hash(d)


\* C26: a configuration loaded from the project's configuration file right
\* after a save has the project name, type, language, framework, module list,
\* custom modules and options of the configuration that was saved.
C26_SaveLoadRoundTrip ==
    (out.op = "load")
    => /\ SameIdentity(out.value, cfg)
       /\ out.value.includes = cfg.includes
       /\ out.value.custom_modules = cfg.custom_modules
       /\ out.value.options = cfg.options


NoDuplicates(s) == \A i, j \in 1..Len(s) : s[i] = s[j] => i = j

\* C27: the module list never holds a duplicate; add_module of a module not
\* in the list appends it at the end, add_module of a module in the list and
\* remove_module of a module not in it change nothing, and add_module followed
\* by remove_module of a module that was not in the list restores the list.
C27_ModuleListHasNoDuplicates ==
    /\ NoDuplicates(cfg.includes)
    /\ \A m \in EditIds \cup ModuleIds :
          LET added == add_module(cfg, m)
              removed == remove_module(cfg, m)
          IN /\ NoDuplicates(added.includes)
             /\ NoDuplicates(removed.includes)
             /\ m \notin Range(removed.includes)
             /\ m \notin Range(cfg.includes) =>
                   /\ added.includes = Append(cfg.includes, m)
                   /\ Len(added.includes) = Len(cfg.includes) + 1
                   /\ removed = cfg
                   /\ remove_module(added, m) = cfg
             /\ m \in Range(cfg.includes) =>
                   /\ added = cfg
                   /\ Len(removed.includes) = Len(cfg.includes) - 1

\* a list that went through a removal and two additions
C27_Witness ==
    /\ cfg.includes = <<"core.dry", "docker", "core.tdd">>
    /\ out.op = "none"

----------------------------------------------------------------------------
(* Two concurrent invocations, with failing writes and rollbacks *)

\* both invocations run unforced on all targets within one second; captures
\* succeed, writes and restores may fail
NextRace ==
    \/ \E p \in Procs :
          \/ Start(p) /\ proc'[p].target = None /\ ~proc'[p].force
          \/ Validate(p) /\ ~LowDisk(proc'[p].validation_result)
          \/ Snapshot(p) /\ ~hist'[p].fault
          \/ Sync(p)
          \/ Verify(p)
          \/ Rollback(p)
    \/ TickSlot

SpecRace == InitTwo /\ [][NextRace]_vars

\* C28: once two concurrent invocations have both returned, the artifacts
\* written by one that returned success still hold what the sync phase
\* writes: no rollback of the other, failed, invocation undid them.
C28_RollbackKeepsOthersWrites ==
    \A p, q \in Procs :
        (/\ p # q
         /\ Done(p) /\ Done(q)
         /\ proc[p].operation_id # proc[q].operation_id
         /\ proc[p].result.success
         /\ ~proc[q].result.success)
        => \A t \in Range(cfg.targets) :
              GeneratedFile(t) \in hist[p].wrote
              => fs[GeneratedFile(t)] = build_generated_file_for_target(cfg, lib, t, now.sec)


Started(p) == proc[p].pc \notin {"off", "idle"}

\* C29: no two invocations share an operation id, and every entry of the
\* audit log carries the operation id of an invocation.
C29_EntriesGroupByOperationId ==
    /\ \A p, q \in Procs :
          (p # q /\ Started(p) /\ Started(q)) => proc[p].operation_id # proc[q].operation_id
    /\ \A i \in DOMAIN audit :
          \E p \in Procs : Started(p) /\ audit[i].operation_id = proc[p].operation_id

----------------------------------------------------------------------------
(* Properties of the snapshot store *)

\* C30: every listed snapshot holds a copy of each file of its mapping.
C30_ListedSnapshotOwnsCopies ==
    \A i \in Listed(snaps) :
        \A f \in MappingKeys(snaps[i]) : Exists(snaps[i].copies[f])

====
